---- MODULE Spec2Model ----
(***************************************************************************)
(* The inquiry path of the site: the contact form (Contact.handleSubmit),  *)
(* the client-side rate limiter (useRateLimit), the submit hook            *)
(* (useInquirySubmit), the validator, the sanitizer and the POST wrapper   *)
(* of the content service.                                                 *)
(*                                                                         *)
(* Text is a sequence of one-character strings.  Time is Date.now() in     *)
(* milliseconds.  One step of the model is one run of the browser's event  *)
(* loop: a DOM event handler, or the continuation of an awaited network    *)
(* call, each followed by React's re-render of the component.              *)
(***************************************************************************)
EXTENDS Integers, Sequences, FiniteSets

\* ------------------------------------------------------------------ bounds
\* Clock advances the model takes.
MaxTicks == 2
\* Calls of contentService.submitInquiry the model follows.
MaxSubmits == 2
\* Date.now() when the session starts (a stand-in for an epoch time, far
\* larger than the limiter's interval as every real clock value is).
StartNow == 100000
\* Calls of refreshContent the model follows.
MaxRefreshes == 2
\* Versions of the site's content the CMS publishes.
MaxVersions == 2
\* Calls of its fetch function by one mounted content hook the model follows.
MaxFetches == 3

\* --------------------------------------------------------------- constants
\* useRateLimit({ limitMs: 60000, ... }) in Contact.
LimitMs == 60000
\* INQUIRY_CONSTRAINTS
NameMinLength == 2
NameMaxLength == 100
EmailMaxLength == 254
SubjectMinLength == 3
SubjectMaxLength == 200
MessageMinLength == 10
MessageMaxLength == 5000

\* JavaScript's null, undefined and NaN.
Null == "(null)"
NoItem == <<"(null)">>
NaN == 0 - 1

\* The clock advances the model takes: a millisecond, exactly the interval,
\* and the interval plus a second.
TickSteps == {1, LimitMs, LimitMs + 1000}

\* ----------------------------------------------------------- number <-> text
Digit(d) == CASE d = 0 -> "0" [] d = 1 -> "1" [] d = 2 -> "2" [] d = 3 -> "3"
              [] d = 4 -> "4" [] d = 5 -> "5" [] d = 6 -> "6" [] d = 7 -> "7"
              [] d = 8 -> "8" [] d = 9 -> "9"

DigitValue(c) == CASE c = "0" -> 0 [] c = "1" -> 1 [] c = "2" -> 2 [] c = "3" -> 3
                   [] c = "4" -> 4 [] c = "5" -> 5 [] c = "6" -> 6 [] c = "7" -> 7
                   [] c = "8" -> 8 [] c = "9" -> 9 [] OTHER -> NaN

\* Number.prototype.toString() of a non-negative integer.
RECURSIVE toString(_)
toString(n) == IF n < 10 THEN <<Digit(n)>> ELSE Append(toString(n \div 10), Digit(n % 10))

\* The value of the longest run of decimal digits s starts with, NaN when
\* there is none: parseInt(s, 10) on text without sign or leading blanks.
RECURSIVE ParseDigits(_, _, _)
ParseDigits(s, i, acc) ==
    IF i > Len(s) \/ DigitValue(s[i]) = NaN THEN acc
    ELSE ParseDigits(s, i + 1, (IF acc = NaN THEN 0 ELSE acc) * 10 + DigitValue(s[i]))

ParseInt(s) == ParseDigits(s, 1, NaN)

\* ------------------------------------------------------------ rate limiter
\* Mutant of getStoredTimestamp: the item is read under another key, so
\* nothing is ever found.
getStoredTimestampOtherKey(stored, readThrows) == 0

\* useRateLimit.getStoredTimestamp: the state's initial value.
getStoredTimestamp(stored, readThrows) ==
    IF readThrows THEN 0
    ELSE IF stored # NoItem /\ stored # <<>> THEN ParseInt(stored) ELSE 0

\* Mutant of canSubmit: >= for >.
canSubmitAtLimit(lastSubmit, t) ==
    lastSubmit # NaN /\ t - lastSubmit >= LimitMs

\* useRateLimit.canSubmit, with lastSubmit of the render that made the callback.
canSubmit(lastSubmit, t) ==
    lastSubmit # NaN /\ t - lastSubmit > LimitMs

\* Math.ceil(x / 1000) of an integer x.
CeilDiv1000(x) == 0 - ((0 - x) \div 1000)

Max(a, b) == IF a >= b THEN a ELSE b

\* Mutant of timeRemaining: Math.floor for Math.ceil.
timeRemainingFloor(lastSubmit, t) ==
    IF lastSubmit = NaN THEN NaN
    ELSE Max(0, (LimitMs - (t - lastSubmit)) \div 1000)

\* Mutant of timeRemaining: the division by 1000 is left out.
timeRemainingMs(lastSubmit, t) ==
    IF lastSubmit = NaN THEN NaN
    ELSE Max(0, LimitMs - (t - lastSubmit))

\* useRateLimit.timeRemaining
timeRemaining(lastSubmit, t) ==
    IF lastSubmit = NaN THEN NaN
    ELSE LET elapsed == t - lastSubmit
             remaining == LimitMs - elapsed
         IN Max(0, CeilDiv1000(remaining))

\* Mutant of recordedTimestamp: seconds for milliseconds.
recordedTimestampSeconds(t) == t \div 1000

\* What recordSubmit leaves in the state: setLastSubmit(now).
recordedTimestamp(t) == t

\* Mutant of recordedItem: a failed write removes the item.
recordedItemDropsOnError(stored, t, writeThrows) ==
    IF writeThrows THEN NoItem ELSE toString(t)

\* What recordSubmit leaves in sessionStorage under storageKey.
recordedItem(stored, t, writeThrows) ==
    IF writeThrows THEN stored ELSE toString(t)

\* ---------------------------------------------------------------- validator
IsSpace(c) == c = " "

RECURSIVE TrimStart(_)
TrimStart(s) == IF s # <<>> /\ IsSpace(Head(s)) THEN TrimStart(Tail(s)) ELSE s

RECURSIVE TrimEnd(_)
TrimEnd(s) ==
    IF s # <<>> /\ IsSpace(s[Len(s)]) THEN TrimEnd(SubSeq(s, 1, Len(s) - 1)) ELSE s

\* String.prototype.trim
trim(s) == TrimEnd(TrimStart(s))

\* Mutant of isValidEmail: the domain need not hold a ".".
isValidEmailNoDot(email) ==
    IF email = <<>> THEN FALSE
    ELSE LET t == trim(email)
         IN /\ \A k \in 1..Len(t) : ~IsSpace(t[k])
            /\ Cardinality({k \in 1..Len(t) : t[k] = "@"}) = 1
            /\ \E i \in 2..(Len(t) - 1) : t[i] = "@"

\* /^[^\s@]+@[^\s@]+\.[^\s@]+$/ tested on the trimmed text.
isValidEmail(email) ==
    IF email = <<>> THEN FALSE
    ELSE LET t == trim(email)
         IN /\ \A k \in 1..Len(t) : ~IsSpace(t[k])
            /\ Cardinality({k \in 1..Len(t) : t[k] = "@"}) = 1
            /\ \E i \in 2..Len(t) :
                  /\ t[i] = "@"
                  /\ \E j \in (i + 2)..(Len(t) - 1) : t[j] = "."

\* Mutant of hasMinLength: the value is measured untrimmed.
hasMinLengthUntrimmed(value, minLength) == Len(value) >= minLength

hasMinLength(value, minLength) == Len(trim(value)) >= minLength

\* Mutant of hasMaxLength: < for <=.
hasMaxLengthExclusive(value, maxLength) == Len(trim(value)) < maxLength

hasMaxLength(value, maxLength) == Len(trim(value)) <= maxLength

\* One field's rule of validateInquiry: a minimum rule, else a maximum rule.
NameErrors(name) ==
    IF name = <<>> \/ ~hasMinLength(name, NameMinLength)
    THEN << <<"Name must be at least ", NameMinLength, " characters">> >>
    ELSE IF ~hasMaxLength(name, NameMaxLength)
    THEN << <<"Name must be less than ", NameMaxLength, " characters">> >>
    ELSE <<>>

EmailErrors(email) ==
    IF email = <<>> \/ ~isValidEmail(email)
    THEN << <<"Please enter a valid email address", 0, "">> >>
    ELSE IF ~hasMaxLength(email, EmailMaxLength)
    THEN << <<"Email address is too long", 0, "">> >>
    ELSE <<>>

SubjectErrors(subject) ==
    IF subject = <<>> \/ ~hasMinLength(subject, SubjectMinLength)
    THEN << <<"Subject must be at least ", SubjectMinLength, " characters">> >>
    ELSE IF ~hasMaxLength(subject, SubjectMaxLength)
    THEN << <<"Subject must be less than ", SubjectMaxLength, " characters">> >>
    ELSE <<>>

MessageErrors(message) ==
    IF message = <<>> \/ ~hasMinLength(message, MessageMinLength)
    THEN << <<"Message must be at least ", MessageMinLength, " characters">> >>
    ELSE IF ~hasMaxLength(message, MessageMaxLength)
    THEN << <<"Message must be less than ", MessageMaxLength, " characters">> >>
    ELSE <<>>

\* Mutant of validateInquiry: validation stops at the first field that fails.
validateInquiryFirstOnly(data) ==
    LET errors == IF NameErrors(data.name) # <<>> THEN NameErrors(data.name)
                  ELSE IF EmailErrors(data.email) # <<>> THEN EmailErrors(data.email)
                  ELSE IF SubjectErrors(data.subject) # <<>> THEN SubjectErrors(data.subject)
                  ELSE MessageErrors(data.message)
    IN [isValid |-> Len(errors) = 0, errors |-> errors]

validateInquiry(data) ==
    LET errors == NameErrors(data.name) \o EmailErrors(data.email)
                  \o SubjectErrors(data.subject) \o MessageErrors(data.message)
    IN [isValid |-> Len(errors) = 0, errors |-> errors]

\* ---------------------------------------------------------------- sanitizer
\* A "<" opens a tag when a letter or "/" follows it (the HTML tokenizer).
OpensTag(s) ==
    /\ Len(s) >= 2
    /\ s[1] = "<"
    /\ s[2] \notin {" ", "<", ">", "@", ".", "&", "!", "0", "1", "2", "3", "4",
                    "5", "6", "7", "8", "9"}

\* The index of the first ">" of s, 0 when there is none.
TagEnd(s) ==
    IF \E k \in 1..Len(s) : s[k] = ">"
    THEN CHOOSE k \in 1..Len(s) : s[k] = ">" /\ \A j \in 1..(k - 1) : s[j] # ">"
    ELSE 0

\* A text node's character as innerHTML serializes it.
Escaped(c) ==
    CASE c = "<" -> <<"&", "l", "t", ";">>
      [] c = ">" -> <<"&", "g", "t", ";">>
      [] c = "&" -> <<"&", "a", "m", "p", ";">>
      [] OTHER -> <<c>>

ScriptOpen == <<"<", "s", "c", "r", "i", "p", "t", ">">>
ScriptClose == <<"<", "/", "s", "c", "r", "i", "p", "t", ">">>

StartsWith(s, p) == Len(s) >= Len(p) /\ SubSeq(s, 1, Len(p)) = p

\* The index after the first "</script>" of s, past the end of s when there
\* is none.
AfterScript(s) ==
    LET ends == {k \in 1..Len(s) : StartsWith(SubSeq(s, k, Len(s)), ScriptClose)}
    IN IF ends = {} THEN Len(s) + 1
       ELSE (CHOOSE k \in ends : \A j \in ends : k <= j) + Len(ScriptClose)

\* The sanitizer's walk over markup with { ALLOWED_TAGS: [] }: every element
\* is removed and its text kept, except a script element, which goes with
\* its text; a tag left open at the end of the input is dropped; the text
\* that is left is serialized as HTML.
RECURSIVE StripTags(_)
StripTags(s) ==
    IF s = <<>> THEN <<>>
    ELSE IF StartsWith(s, ScriptOpen)
    THEN StripTags(SubSeq(s, AfterScript(s), Len(s)))
    ELSE IF OpensTag(s)
    THEN IF TagEnd(s) = 0 THEN <<>> ELSE StripTags(SubSeq(s, TagEnd(s) + 1, Len(s)))
    ELSE Escaped(Head(s)) \o StripTags(Tail(s))

\* DOMPurify.sanitize(s, { ALLOWED_TAGS: [] }): text without any "<" is
\* returned as it is, anything else is parsed and walked.
Purify(s) ==
    IF \A k \in 1..Len(s) : s[k] # "<" THEN s ELSE StripTags(s)

\* Mutant of sanitizeText: the input is returned as it is.
sanitizeTextUntouched(input) == input

sanitizeText(input) == IF input = <<>> THEN <<>> ELSE Purify(trim(input))

sanitizeInquiry(data) ==
    [name |-> sanitizeText(data.name),
     email |-> sanitizeText(data.email),
     subject |-> sanitizeText(data.subject),
     message |-> sanitizeText(data.message)]
\* ---------------------------------------------------------- content service
\* CMS_CONFIG as the build's environment can set it.
CMSConfigs == [enabled : BOOLEAN, baseUrl : {"", "https://cms.example"}]

\* The two deployments the model follows: a CMS configured and switched on,
\* and none.
Deployments == {cfg \in CMSConfigs : cfg.enabled = (cfg.baseUrl # "")}

\* Mutant of cmsActive: only the enabled flag is looked at.
cmsActiveByFlag(cfg) == cfg.enabled

\* !CMS_CONFIG.enabled || !CMS_CONFIG.baseUrl, negated.
cmsActive(cfg) == cfg.enabled /\ cfg.baseUrl # ""

\* What the network can answer to the POST: fetch rejects (fetched = FALSE) or
\* resolves with a 2xx status (ok) or another one, and a body that parses as
\* JSON (json) or does not; success and message are the parsed body's fields
\* (message "" when the body has none).
Responses ==
    { [fetched |-> FALSE, ok |-> FALSE, json |-> FALSE, success |-> FALSE, message |-> ""],
      [fetched |-> TRUE, ok |-> TRUE, json |-> TRUE, success |-> TRUE, message |-> ""],
      [fetched |-> TRUE, ok |-> TRUE, json |-> TRUE, success |-> FALSE, message |-> "Rejected"],
      [fetched |-> TRUE, ok |-> TRUE, json |-> FALSE, success |-> FALSE, message |-> ""],
      [fetched |-> TRUE, ok |-> FALSE, json |-> TRUE, success |-> FALSE, message |-> "Server says no"],
      [fetched |-> TRUE, ok |-> FALSE, json |-> TRUE, success |-> FALSE, message |-> ""],
      [fetched |-> TRUE, ok |-> FALSE, json |-> FALSE, success |-> FALSE, message |-> ""] }

\* postToCMS once the configuration is active and the network has answered.
postToCMS(resp) ==
    IF ~resp.fetched \/ ~resp.json
    THEN [success |-> FALSE, error |-> "Network error. Please try again.", message |-> ""]
    ELSE IF ~resp.ok
    THEN [success |-> FALSE,
          error |-> IF resp.message # "" THEN resp.message ELSE "Submission failed",
          message |-> ""]
    ELSE [success |-> TRUE, error |-> "", message |-> ""]

\* postToCMS with the CMS disabled: no request, a local success.
localSuccess == [success |-> TRUE, error |-> "", message |-> "Submitted successfully (local mode)"]

\* The sections of SiteContent.
Sections == {"metadata", "navigation", "hero", "services", "projects", "contact", "footer"}

\* The content getters of contentService.
Getters == {"getSiteContent", "getNavigation", "getHeroContent", "getServicesContent",
            "getProjectsContent", "getContactContent", "getFooterContent"}

\* The sections the object a getter resolves to is made of.
SectionsOf(g) ==
    CASE g = "getSiteContent" -> Sections
      [] g = "getNavigation" -> {"navigation"}
      [] g = "getHeroContent" -> {"hero"}
      [] g = "getServicesContent" -> {"services"}
      [] g = "getProjectsContent" -> {"projects"}
      [] g = "getContactContent" -> {"contact"}
      [] g = "getFooterContent" -> {"footer"}

\* Content is told apart by where it comes from: a section of the bundled
\* defaults is Bundled, a section the CMS served is the version it was
\* published in, and the body of an error page is Garbage.
Bundled == 0
Garbage == 0 - 1

\* defaultSiteContent, defaultNavigation, defaultHero, ...: a getter's fallback.
DefaultOf(g) == [s \in SectionsOf(g) |-> Bundled]

defaultSiteContent == DefaultOf("getSiteContent")

\* What the CMS serves at a getter's endpoint when it is at version v.
Served(g, v) == [s \in SectionsOf(g) |-> v]

\* What the network can answer to a getter's GET: fetch rejects, or resolves
\* with a non-2xx status, or with a 2xx status and a body that does not parse,
\* or with a 2xx status and the content of version v.
Replies(g, v) ==
    { [fetched |-> FALSE, ok |-> FALSE, json |-> FALSE, body |-> Served(g, Garbage)],
      [fetched |-> TRUE, ok |-> FALSE, json |-> TRUE, body |-> Served(g, Garbage)],
      [fetched |-> TRUE, ok |-> TRUE, json |-> FALSE, body |-> Served(g, Garbage)],
      [fetched |-> TRUE, ok |-> TRUE, json |-> TRUE, body |-> Served(g, v)] }

\* The answers the claims call a failed fetch.
Failed(reply) == ~reply.fetched \/ ~reply.ok \/ ~reply.json

\* Mutant of fetchFromCMS: the status of the response is not looked at.
fetchFromCMSAnyStatus(cfg, reply) ==
    IF ~cmsActive(cfg) THEN [requested |-> FALSE, null |-> TRUE, data |-> reply.body]
    ELSE IF ~reply.fetched \/ ~reply.json
    THEN [requested |-> TRUE, null |-> TRUE, data |-> reply.body]
    ELSE [requested |-> TRUE, null |-> FALSE, data |-> reply.body]

\* Mutant of fetchFromCMS: the request is made whatever CMS_CONFIG says.
fetchFromCMSUnconfigured(cfg, reply) ==
    IF ~reply.fetched \/ ~reply.ok \/ ~reply.json
    THEN [requested |-> TRUE, null |-> TRUE, data |-> reply.body]
    ELSE [requested |-> TRUE, null |-> FALSE, data |-> reply.body]

\* fetchFromCMS: null, or the parsed body.
fetchFromCMS(cfg, reply) ==
    IF ~cmsActive(cfg) THEN [requested |-> FALSE, null |-> TRUE, data |-> reply.body]
    ELSE IF ~reply.fetched THEN [requested |-> TRUE, null |-> TRUE, data |-> reply.body]
    ELSE IF ~reply.ok THEN [requested |-> TRUE, null |-> TRUE, data |-> reply.body]
    ELSE IF ~reply.json THEN [requested |-> TRUE, null |-> TRUE, data |-> reply.body]
    ELSE [requested |-> TRUE, null |-> FALSE, data |-> reply.body]

\* A content getter: `cmsContent || default`; it has no path that rejects.
getContent(g, cfg, reply) ==
    LET cmsContent == fetchFromCMS(cfg, reply)
    IN [requested |-> cmsContent.requested,
        threw |-> FALSE,
        value |-> IF cmsContent.null THEN DefaultOf(g) ELSE cmsContent.data]

getSiteContent(cfg, reply) == getContent("getSiteContent", cfg, reply)

\* The answer fetch gives when the network cannot be reached.
Unreachable(g) == [fetched |-> FALSE, ok |-> FALSE, json |-> FALSE, body |-> Served(g, Garbage)]

\* Mutant of heldContent: the sections that fell back to a default keep what
\* was held.
heldContentMerged(prev, newContent) ==
    [s \in Sections |-> IF newContent[s] = Bundled THEN prev[s] ELSE newContent[s]]

\* setContent(newContent): the state is replaced by the new snapshot.
heldContent(prev, newContent) == newContent

\* No getter has been called yet.
NoRead == [getter |-> "", requested |-> FALSE, threw |-> FALSE, value |-> <<>>]

\* ------------------------------------------------------------ contact form
\* The two Contact components of the repository: the one that validates,
\* sanitizes and rate limits, and the one under triji-official/ that does not.
Guarded == "Contact (guarded)"
Plain == "triji-official Contact"
Apps == {Guarded, Plain}

Fields == {"name", "email", "subject", "message"}

initialFormData == [name |-> <<>>, email |-> <<>>, subject |-> <<>>, message |-> <<>>]

\* What the user types into a field.
Typed ==
    [name |-> { <<"A">>, <<" ", "A", "l">> },
     email |-> { <<"a", "@", "b", ".", "c">> },
     subject |-> { <<"<", "b", ">", "H", "i", "!">> },
     message |-> { <<"h", "e", "l", "l", "o", " ", "t", "h", "e", "r", "e">> }]

\* n times the character c.
Repeat(c, n) == [i \in 1..n |-> c]

\* Field values on both sides of every rule of the validator: empty, too
\* short, acceptable, and one character too long.
Entered ==
    [name |-> { <<>>, <<"A">>, <<" ", "A", "l">>, Repeat("x", NameMaxLength + 1) },
     email |-> { <<>>, <<"a", "@", "b">>, <<"a", "@", "b", ".", "c">>,
                 Repeat("a", EmailMaxLength) \o <<"@", "b", ".", "c">> },
     subject |-> { <<>>, <<"H", "i">>, <<"<", "b", ">", "H", "i", "!">>,
                   Repeat("s", SubjectMaxLength + 1) },
     message |-> { <<>>, <<"h", "e", "l", "l", "o">>,
                   <<"h", "e", "l", "l", "o", " ", "t", "h", "e", "r", "e">>,
                   Repeat("m", MessageMaxLength + 1) }]

\* The forms a user can have filled in from them.
Inquiries ==
    [name : Entered.name, email : Entered.email, subject : Entered.subject,
     message : Entered.message]

\* Field values on both sides of every boundary of the validator and through
\* every path of the sanitizer.
Filled ==
    [name |-> { <<>>, <<"A">>, <<" ", " ">>, <<" ", "A", " ">>, <<" ", "A", "l", " ">>,
                Repeat("x", NameMaxLength), Repeat("x", NameMaxLength + 1),
                <<"<", "s", "c", "r", "i", "p", "t", ">", "a", "l", "e", "r", "t", "(", "1", ")", "<", "/", "s", "c", "r", "i", "p", "t", ">", "h", "e", "l", "l", "o">>,
                <<"<", "b", ">">> },
     email |-> { <<>>, <<"n", "o", "t", "-", "a", "n", "-", "e", "m", "a", "i", "l">>, <<"a", " ", "b", "@", "c", ".", "d">>, <<"a", "@", "@", "b", ".", "c">>, <<"a", "@", "b">>, <<"@", "b", ".", "c">>,
                 <<"a", "@", "b", ".", "c">>, <<" ", "a", "@", "b", ".", "c", " ">>,
                 Repeat("a", EmailMaxLength - 4) \o <<"@", "b", ".", "c">>,
                 Repeat("a", EmailMaxLength - 3) \o <<"@", "b", ".", "c">> },
     subject |-> { <<>>, <<"H", "i">>, <<"H", "i", "!">>, <<"<", "b", ">", "H", "i">>,
                   Repeat("s", SubjectMaxLength), Repeat("s", SubjectMaxLength + 1) },
     message |-> { <<>>, <<"t", "o", "o", " ", "s", "h", "o", "r", "t">>, <<"h", "e", "l", "l", "o", " ", "y", "o", "u", ".">>,
                   Repeat("m", MessageMaxLength), Repeat("m", MessageMaxLength + 1) }]

FilledForms ==
    [name : Filled.name, email : Filled.email, subject : Filled.subject,
     message : Filled.message]

\* `Please wait ${timeRemaining()} seconds before submitting again.`
WaitMessage(seconds) == <<"Please wait ", seconds, " seconds before submitting again.">>

\* The inquiry handleSubmit hands to submit().
transmitted(component, inquiryData) ==
    IF component = Guarded THEN sanitizeInquiry(inquiryData) ELSE inquiryData

\* Mutant of recordsSubmit: recordSubmit() is called whatever submit() returned.
recordsSubmitAlways(submitted) == TRUE

\* handleSubmit's test on what submit() returned, before recordSubmit().
recordsSubmit(submitted) == submitted

\* useInquirySubmit.submit after its await: the value it returns and the
\* hook's success and error once it has returned.
submitOutcome(result, curError, curSuccess) ==
    [returned |-> result.success,
     success |-> IF result.success THEN TRUE ELSE curSuccess,
     error |-> IF result.success THEN curError
               ELSE IF result.error # "" THEN result.error ELSE "Failed to submit inquiry"]

VARIABLES
    app,               \* which Contact component the page mounts
    config,            \* CMS_CONFIG
    now,               \* Date.now()
    ticks,             \* clock advances taken
    storage,           \* sessionStorage's item under storageKey
    storageThrows,     \* whether sessionStorage throws on this page (blocked, over quota)
    lastSubmit,        \* useRateLimit's state
    isRateLimited,     \* useRateLimit's isRateLimited of the last render
    formData,          \* Contact's state
    validationErrors,  \* Contact's state
    loading,           \* useInquirySubmit's state
    error,             \* useInquirySubmit's state
    success,           \* useInquirySubmit's state
    pending,           \* the POSTs in flight (each awaited by its own handleSubmit)
    submits,           \* calls of contentService.submitInquiry so far
    netRequests,       \* fetch calls so far
    lastCall,          \* the last submitInquiry call: the form data and the argument
    lastEvent,         \* what the last handler or continuation that ran did
    published,         \* the version of the content the CMS serves
    content,           \* ContentProvider's state
    contentLoading,    \* ContentProvider's state (loading)
    contentError,      \* ContentProvider's state (error)
    refreshing,        \* the refreshContent calls awaiting their fetch
    refreshes,         \* calls of refreshContent so far
    lastDone,          \* the refreshContent call that completed last
    lastRead,          \* the last call of a content getter and what it resolved to
    initialContent,    \* whether ContentProvider was given the initialContent prop
    effectRan,         \* whether ContentProvider's mount effect has run
    hookGetter,        \* the getter the mounted content hook (useContent) fetches with
    hookData,          \* useContent's state (data)
    hookLoading,       \* useContent's state (loading)
    hookError,         \* useContent's state (error)
    hookFetching,      \* useContent's fetches awaiting their result
    hookFetches,       \* calls of fetchFn by the hook so far
    effectDue          \* whether a render has left the hook's effect to run

\* The contact form's page.
formState == <<app, now, ticks, storage, storageThrows, lastSubmit, isRateLimited, formData,
               validationErrors, loading, error, success, pending, submits, netRequests,
               lastCall, lastEvent>>

\* The content provider and the CMS behind it.
contentState == <<published, content, contentLoading, contentError, refreshing, refreshes,
                  lastDone, lastRead, initialContent, effectRan>>

\* A mounted per-section content hook.
hookState == <<hookGetter, hookData, hookLoading, hookError, hookFetching, hookFetches,
               effectDue>>

vars == <<config, formState, contentState, hookState>>

\* isRateLimited = !canSubmit(), evaluated when the component renders.
rendered(component, last, t) ==
    IF component = Guarded THEN ~canSubmit(last, t) ELSE FALSE

\* ContentProvider's first render, given the initialContent prop or not; the
\* content a parent passes in is the first version the CMS published.
ContentWith(given) ==
    /\ published = 1
    /\ initialContent = given
    /\ effectRan = FALSE
    /\ content = (IF given THEN Served("getSiteContent", 1) ELSE defaultSiteContent)
    /\ contentLoading = ~given
    /\ contentError = Null
    /\ refreshing = {}
    /\ refreshes = 0
    /\ lastDone = 0
    /\ lastRead = NoRead

\* ContentProvider's first render in App, which passes no initialContent.
ContentInit == ContentWith(FALSE)

\* useContent's first render, for the hook that fetches with getter g.
HookMounted(g) ==
    /\ hookGetter = g
    /\ hookData = [null |-> TRUE, data |-> DefaultOf(g)]
    /\ hookLoading = TRUE
    /\ hookError = Null
    /\ hookFetching = 0
    /\ hookFetches = 0
    /\ effectDue = TRUE

HookInit == HookMounted("getHeroContent")

\* Contact with data in its fields and nothing submitted yet.
FormWith(data) ==
    /\ app \in Apps
    /\ now = StartNow
    /\ ticks = 0
    /\ storage = NoItem
    /\ storageThrows \in BOOLEAN
    /\ lastSubmit = 0
    /\ isRateLimited = rendered(app, 0, StartNow)
    /\ formData = data
    /\ validationErrors = <<>>
    /\ loading = FALSE
    /\ error = Null
    /\ success = FALSE
    /\ pending = 0
    /\ submits = 0
    /\ netRequests = 0
    /\ lastCall = [made |-> FALSE, raw |-> initialFormData, data |-> initialFormData]
    /\ lastEvent = "mount"

\* Contact's first render.
FormInit == FormWith(initialFormData)

Init ==
    /\ config \in Deployments
    /\ FormInit
    /\ ContentInit
    /\ HookInit

\* Time passes; nothing renders.
Tick ==
    /\ ticks < MaxTicks
    /\ \E d \in TickSteps : now' = now + d
    /\ ticks' = ticks + 1
    /\ UNCHANGED <<app, config, storage, storageThrows, lastSubmit, isRateLimited,
                   formData, validationErrors, loading, error, success, pending,
                   submits, netRequests, lastCall, lastEvent>>

\* The page is loaded again: every hook starts over, the limiter from
\* sessionStorage (which may throw on the new page); the answers to the old
\* page's requests reach nobody.
Mount(stored) ==
    /\ storageThrows' \in BOOLEAN
    /\ lastSubmit' = (IF app = Guarded THEN getStoredTimestamp(stored, storageThrows') ELSE 0)
    /\ isRateLimited' = rendered(app, lastSubmit', now)
    /\ formData' = initialFormData
    /\ validationErrors' = <<>>
    /\ loading' = FALSE
    /\ error' = Null
    /\ success' = FALSE
    /\ pending' = 0
    /\ UNCHANGED <<app, config, now, ticks, submits, netRequests, lastCall>>

Reload ==
    /\ Mount(storage)
    /\ storage' = storage
    /\ lastEvent' = "reload"

\* The browsing session ends (sessionStorage goes with it) and a new one opens the page.
NewSession ==
    /\ Mount(NoItem)
    /\ storage' = NoItem
    /\ lastEvent' = "newSession"

\* handleChange(name, value); the fields are disabled while loading.
HandleChange ==
    /\ ~loading
    /\ \E f \in Fields : \E v \in Typed[f] :
          /\ formData[f] # v
          /\ formData' = [formData EXCEPT ![f] = v]
    /\ error' = Null
    /\ success' = (IF error # Null THEN FALSE ELSE success)
    /\ validationErrors' = <<>>
    /\ isRateLimited' = rendered(app, lastSubmit, now)
    /\ lastEvent' = "change"
    /\ UNCHANGED <<app, config, now, ticks, storage, storageThrows, lastSubmit,
                   loading, pending, submits, netRequests, lastCall>>
\* handleSubmit after `await submit(...)`, and before it submit() from the
\* answer on: the hook's state is set, the limiter records the submission and
\* the form is cleared when submit() returned true.
AfterAwait(result, curError, curSuccess, inFlight) ==
    LET out == submitOutcome(result, curError, curSuccess)
    IN /\ loading' = FALSE
       /\ error' = out.error
       /\ success' = out.success
       /\ pending' = inFlight
       /\ IF app = Guarded /\ recordsSubmit(out.returned)
          THEN /\ lastSubmit' = recordedTimestamp(now)
               /\ storage' = recordedItem(storage, now, storageThrows)
          ELSE UNCHANGED <<lastSubmit, storage>>
       /\ IF out.returned
          THEN formData' = initialFormData /\ validationErrors' = <<>>
          ELSE UNCHANGED <<formData, validationErrors>>
       /\ isRateLimited' = rendered(app, lastSubmit', now)
       /\ lastEvent' = (IF out.returned THEN "submitOk" ELSE "submitFailed")

\* submit(data) up to its await: contentService.submitInquiry(data) is called;
\* with the CMS disabled it resolves without a request and handleSubmit runs on.
Submit(inquiryData) ==
    /\ submits < MaxSubmits
    /\ submits' = submits + 1
    /\ lastCall' = [made |-> TRUE, raw |-> inquiryData, data |-> transmitted(app, inquiryData)]
    /\ IF cmsActive(config)
       THEN /\ netRequests' = netRequests + 1
            /\ pending' = pending + 1
            /\ loading' = TRUE
            /\ error' = Null
            /\ success' = FALSE
            /\ isRateLimited' = rendered(app, lastSubmit, now)
            /\ lastEvent' = "sent"
            /\ UNCHANGED <<lastSubmit, storage, formData, validationErrors>>
       ELSE /\ netRequests' = netRequests
            /\ AfterAwait(localSuccess, Null, FALSE, pending)

\* Contact.handleSubmit, onSubmit of the form.
HandleSubmit ==
    /\ IF app = Guarded /\ ~canSubmit(lastSubmit, now)
       THEN /\ validationErrors' = <<WaitMessage(timeRemaining(lastSubmit, now))>>
            /\ isRateLimited' = rendered(app, lastSubmit, now)
            /\ lastEvent' = "rateLimited"
            /\ UNCHANGED <<storage, lastSubmit, formData, loading, error, success,
                           pending, submits, netRequests, lastCall>>
       ELSE IF app = Guarded /\ ~validateInquiry(formData).isValid
       THEN /\ validationErrors' = validateInquiry(formData).errors
            /\ isRateLimited' = rendered(app, lastSubmit, now)
            /\ lastEvent' = "invalid"
            /\ UNCHANGED <<storage, lastSubmit, formData, loading, error, success,
                           pending, submits, netRequests, lastCall>>
       ELSE Submit(formData)
    /\ UNCHANGED <<app, config, now, ticks, storageThrows>>

\* The user presses the submit button: disabled={loading || isRateLimited},
\* and the browser submits only when every required field holds something.
ClickSubmit ==
    /\ ~(loading \/ isRateLimited)
    /\ \A f \in Fields : formData[f] # <<>>
    /\ HandleSubmit

\* A submit event reaches the form some other way (form.requestSubmit(), a
\* script, a test's fireEvent.submit): onSubmit runs whatever the button shows.
SubmitEvent == HandleSubmit

\* The network answers one of the POSTs in flight with resp.
ResponseWith(resp) ==
    /\ pending > 0
    /\ AfterAwait(postToCMS(resp), error, success, pending - 1)
    /\ UNCHANGED <<app, config, now, ticks, storageThrows, submits, netRequests,
                   lastCall>>

Response == \E resp \in Responses : ResponseWith(resp)

Next ==
    \/ Tick /\ UNCHANGED <<contentState, hookState>>
    \/ Reload /\ UNCHANGED <<contentState, hookState>>
    \/ NewSession /\ UNCHANGED <<contentState, hookState>>
    \/ HandleChange /\ UNCHANGED <<contentState, hookState>>
    \/ ClickSubmit /\ UNCHANGED <<contentState, hookState>>
    \/ SubmitEvent /\ UNCHANGED <<contentState, hookState>>
    \/ Response /\ UNCHANGED <<contentState, hookState>>

Spec == Init /\ [][Next]_vars

\* ------------------------------------------------- the form, filled in
\* The user has filled in the form, with any of the values of Entered, under
\* any CMS_CONFIG; from there the form is submitted and the network answers.
InitInputs ==
    /\ config \in CMSConfigs
    /\ \E data \in Inquiries : FormWith(data)
    /\ storageThrows = FALSE
    /\ ContentInit
    /\ HookInit

NextInputs ==
    \/ SubmitEvent /\ UNCHANGED <<contentState, hookState>>
    \/ Response /\ UNCHANGED <<contentState, hookState>>

SpecInputs == InitInputs /\ [][NextInputs]_vars

\* -------------------------------------------- the guarded form, filled in
\* The guarded form filled in with any of the values of Filled, with no CMS
\* configured; from there it is submitted.
InitFields ==
    /\ config = [enabled |-> FALSE, baseUrl |-> ""]
    /\ \E data \in FilledForms : FormWith(data)
    /\ app = Guarded
    /\ storageThrows = FALSE
    /\ ContentInit
    /\ HookInit

NextFields == SubmitEvent /\ UNCHANGED <<contentState, hookState>>

SpecFields == InitFields /\ [][NextFields]_vars

\* -------------------------------------------------------- content provider
\* Mutant of settledLoading: the finally block leaves loading on.
settledLoadingStuck == TRUE

\* refreshContent's finally block: setLoading(false).
settledLoading == FALSE

\* refreshContent up to its await: loading and error are reset and
\* getSiteContent is called; with the CMS disabled it resolves without a
\* request and refreshContent runs on.
StartRefresh ==
    /\ refreshes < MaxRefreshes
    /\ refreshes' = refreshes + 1
    /\ IF cmsActive(config)
       THEN /\ contentLoading' = TRUE
            /\ contentError' = Null
            /\ refreshing' = refreshing \cup {refreshes'}
            /\ UNCHANGED <<content, lastDone>>
       ELSE LET newContent == getSiteContent(config, Unreachable("getSiteContent"))
            IN /\ content' = (IF newContent.threw THEN content
                              ELSE heldContent(content, newContent.value))
               /\ contentError' = (IF newContent.threw THEN "Failed to fetch content" ELSE Null)
               /\ contentLoading' = settledLoading
               /\ lastDone' = refreshes'
               /\ UNCHANGED refreshing

\* A consumer calls refreshContent().
RefreshContent ==
    /\ effectRan
    /\ StartRefresh
    /\ UNCHANGED <<config, formState, hookState, published, lastRead, initialContent,
                   effectRan>>

\* The effect of the first render: refreshContent() unless initialContent
\* was given.
MountEffect ==
    /\ ~effectRan
    /\ effectRan' = TRUE
    /\ IF ~initialContent
       THEN StartRefresh
       ELSE UNCHANGED <<content, contentLoading, contentError, refreshing, refreshes,
                        lastDone>>
    /\ UNCHANGED <<config, formState, hookState, published, lastRead, initialContent>>

\* refreshContent after `await contentService.getSiteContent()`, for the call
\* id whose fetch was answered with reply.
RefreshDone(id, reply) ==
    /\ id \in refreshing
    /\ LET newContent == getSiteContent(config, reply)
       IN /\ content' = (IF newContent.threw THEN content
                         ELSE heldContent(content, newContent.value))
          /\ contentError' = (IF newContent.threw THEN "Failed to fetch content"
                              ELSE contentError)
    /\ contentLoading' = settledLoading
    /\ refreshing' = refreshing \ {id}
    /\ lastDone' = id
    /\ UNCHANGED <<config, formState, hookState, published, refreshes, lastRead,
                   initialContent, effectRan>>

\* The network answers one of the GETs of refreshContent, with a failure or
\* with a version of the content the CMS has published.
RefreshCompletes ==
    \E id \in refreshing : \E v \in 1..published :
       \E reply \in Replies("getSiteContent", v) : RefreshDone(id, reply)

\* An editor publishes a new version of the content.
Publish ==
    /\ published < MaxVersions
    /\ published' = published + 1
    /\ UNCHANGED <<config, formState, hookState, content, contentLoading, contentError,
                   refreshing, refreshes, lastDone, lastRead, initialContent, effectRan>>

\* A consumer awaits getter g of contentService and the network, when it is
\* asked, answers with reply.
GetterCall(g, reply) ==
    /\ LET r == getContent(g, config, reply)
       IN lastRead' = [getter |-> g, requested |-> r.requested, threw |-> r.threw,
                       value |-> r.value]
    /\ UNCHANGED <<config, formState, hookState, published, content, contentLoading,
                   contentError, refreshing, refreshes, lastDone, initialContent, effectRan>>

CallGetter ==
    \E g \in Getters : \E v \in 1..published : \E reply \in Replies(g, v) :
       GetterCall(g, reply)

\* The page mounts ContentProvider; the form is left alone.
InitContent ==
    /\ config \in CMSConfigs
    /\ FormInit
    /\ app = Guarded
    /\ storageThrows = FALSE
    /\ \E given \in BOOLEAN : ContentWith(given)
    /\ HookInit

NextContent ==
    \/ MountEffect
    \/ RefreshContent
    \/ RefreshCompletes
    \/ Publish
    \/ CallGetter

SpecContent == InitContent /\ [][NextContent]_vars

\* The same, with the effect of the first render run by React and every GET
\* answered by the network, sooner or later.
SpecContentFair ==
    SpecContent /\ WF_vars(MountEffect) /\ WF_vars(RefreshCompletes)
\* ------------------------------------------------------------ content hook
\* useHeroContent and its siblings pass useContent an arrow function written
\* in their body, so fetchFn, and with it fetchData (useCallback on fetchFn),
\* is a new function in every render, and the effect that depends on
\* fetchData runs after every render.
fetchDataChanges == TRUE

\* The effect runs fetchData up to its await: loading and error are reset
\* (which renders again when it changes either) and fetchFn is called.
HookEffect ==
    /\ effectDue
    /\ hookFetches < MaxFetches
    /\ hookFetches' = hookFetches + 1
    /\ hookFetching' = hookFetching + 1
    /\ hookLoading' = TRUE
    /\ hookError' = Null
    /\ effectDue' = (fetchDataChanges /\ (~hookLoading \/ hookError # Null))
    /\ UNCHANGED <<config, formState, contentState, hookGetter, hookData>>

\* fetchData after `await fetchFn()`, the network having answered with reply:
\* setData(result) and setLoading(false) render again when they change the
\* state; a body parsed from a response is a new object every time, the
\* bundled default is the same object every time.
HookResolve(reply) ==
    /\ hookFetching > 0
    /\ hookFetching' = hookFetching - 1
    /\ LET result == getContent(hookGetter, config, reply)
           newData == [null |-> FALSE, data |-> result.value]
           parsed == result.value # DefaultOf(hookGetter)
           changed == IF result.threw THEN hookLoading \/ hookError = Null
                      ELSE hookLoading \/ parsed \/ hookData # newData
       IN /\ hookData' = (IF result.threw THEN hookData ELSE newData)
          /\ hookError' = (IF result.threw THEN "Failed to fetch content" ELSE hookError)
          /\ hookLoading' = FALSE
          /\ effectDue' = (effectDue \/ (fetchDataChanges /\ changed))
    /\ UNCHANGED <<config, formState, contentState, hookGetter, hookFetches>>

\* The network answers one of the hook's fetches.
HookCompletes ==
    \E reply \in Replies(hookGetter, published) : HookResolve(reply)

\* A component mounts one of the per-section hooks.
InitHook ==
    /\ config \in CMSConfigs
    /\ FormInit
    /\ app = Guarded
    /\ storageThrows = FALSE
    /\ ContentInit
    /\ \E g \in Getters : HookMounted(g)

NextHook ==
    \/ HookEffect
    \/ HookCompletes

SpecHook == InitHook /\ [][NextHook]_vars

\* ------------------------------------------------------------------ claims

\* C1: the limiter's timestamp and its persisted copy change only in the step
\* in which submit() has returned true (recordSubmit after the await), or
\* when the page is loaded again; a blocked, failed or still pending
\* submission leaves both as they were.
C1_RecordOnlyAfterSuccess ==
    [][(lastSubmit' # lastSubmit \/ storage' # storage)
          => lastEvent' \in {"submitOk", "reload", "newSession"}]_vars

\* C1 witness: a POST went out, came back successful, and recordSubmit ran.
C1_Witness ==
    /\ app = Guarded
    /\ netRequests > 0
    /\ lastEvent = "submitOk"
    /\ lastSubmit = now
    /\ storage = toString(now)

\* C2: a submit event that finds the interval not elapsed makes no
\* submitInquiry call and no request, and shows the wait message with
\* timeRemaining() seconds.
C2_RateLimitedIsBlocked ==
    [][(HandleSubmit /\ app = Guarded /\ now - lastSubmit <= LimitMs)
          => /\ submits' = submits
             /\ netRequests' = netRequests
             /\ pending' = pending
             /\ validationErrors' = <<WaitMessage(timeRemaining(lastSubmit, now))>>]_vars

\* C2 witness: a submission was blocked inside the interval.
C2_Witness ==
    /\ app = Guarded
    /\ lastEvent = "rateLimited"
    /\ lastSubmit > 0
    /\ now - lastSubmit <= LimitMs
    /\ validationErrors = <<WaitMessage(timeRemaining(lastSubmit, now))>>

\* C3: no submitInquiry call is ever made for form data that validateInquiry
\* rejects.
C3_InvalidNeverSubmitted ==
    lastCall.made => validateInquiry(lastCall.raw).isValid

\* C4: whatever is handed to submitInquiry is the output of sanitizeInquiry
\* on the form data, never the form data as typed.
C4_SubmittedIsSanitized ==
    lastCall.made => lastCall.data = sanitizeInquiry(lastCall.raw)
\* C5: right after recordSubmit (no time elapsed) canSubmit() is false and
\* timeRemaining() is 60; 61000 ms later, with nothing recorded in between,
\* canSubmit() is true and timeRemaining() is 0.
C5_SixtySecondsThenFree ==
    (app = Guarded /\ lastSubmit > 0) =>
        /\ now = lastSubmit =>
              ~canSubmit(lastSubmit, now) /\ timeRemaining(lastSubmit, now) = 60
        /\ now = lastSubmit + 61000 =>
              canSubmit(lastSubmit, now) /\ timeRemaining(lastSubmit, now) = 0

\* C5 witness: 61000 ms after a recorded submission.
C5_Witness ==
    /\ app = Guarded
    /\ lastSubmit > 0
    /\ lastEvent = "submitOk"
    /\ now = lastSubmit + 61000

\* C6: handleSubmit takes its rate-limited branch exactly when now - lastSubmit
\* is at most limitMs (at exactly limitMs it still does), and nothing of the
\* limiter changes when it does.
C6_StrictlyGreater ==
    [][(HandleSubmit /\ app = Guarded)
          => /\ (lastEvent' = "rateLimited") <=> ~(now - lastSubmit > LimitMs)
             /\ lastEvent' = "rateLimited" =>
                   lastSubmit' = lastSubmit /\ storage' = storage]_vars

\* C6 witness: a submission blocked when exactly limitMs had passed.
C6_Witness ==
    /\ app = Guarded
    /\ lastEvent = "rateLimited"
    /\ lastSubmit > 0
    /\ validationErrors = <<WaitMessage(0)>>

\* C7: timeRemaining() is the least whole number of seconds that covers the
\* milliseconds still to wait, and 0 when none are left.
C7_CeilClamped ==
    app = Guarded =>
        LET remaining == LimitMs - (now - lastSubmit)
            r == timeRemaining(lastSubmit, now)
        IN /\ r >= 0
           /\ remaining <= 0 => r = 0
           /\ remaining > 0 => 1000 * (r - 1) < remaining /\ remaining <= 1000 * r

\* C7 witness: one millisecond after a recorded submission, 59999 ms are left
\* and timeRemaining() is 60.
C7_Witness ==
    /\ app = Guarded
    /\ lastSubmit > 0
    /\ now = lastSubmit + 1
    /\ timeRemaining(lastSubmit, now) = 60

\* C8: the isRateLimited the component last rendered is the negation of what
\* canSubmit() returns now.
C8_FlagIsNotCanSubmit ==
    app = Guarded => (isRateLimited <=> ~canSubmit(lastSubmit, now))
\* The persisted copy is the limiter's timestamp (or neither exists yet).
Persisted ==
    \/ storage = toString(lastSubmit)
    \/ storage = NoItem /\ lastSubmit = 0

\* C9: within a session the limiter's timestamp never decreases, and changes
\* only through recordSubmit after a successful submission.
C9_NeverDecreases ==
    [][NewSession \/ /\ lastSubmit' >= lastSubmit
                     /\ lastSubmit' # lastSubmit => lastEvent' = "submitOk"]_vars

\* C9 as amended: while the page stays mounted the timestamp never decreases
\* and changes only through recordSubmit after a successful submission, to
\* the time of that call; a reload leaves it as it was when the last write to
\* sessionStorage succeeded and the read on the new page does not throw.
C9_NeverDecreasesWhileMounted ==
    [][/\ ~(NewSession \/ Reload) =>
             /\ lastSubmit' >= lastSubmit
             /\ lastSubmit' # lastSubmit => lastEvent' = "submitOk" /\ lastSubmit' = now
       /\ (Reload /\ Persisted /\ ~storageThrows') => lastSubmit' = lastSubmit]_vars

\* C9 witness: a second submission recorded later than the first, and persisted.
C9_Witness ==
    /\ app = Guarded
    /\ submits = 2
    /\ lastEvent = "submitOk"
    /\ now > StartNow
    /\ lastSubmit = now
    /\ storage = toString(now)

\* C10: a reload restores the timestamp recordSubmit set, so the limiter
\* stays closed until the interval has passed since then; a new session
\* starts from 0 with canSubmit() true.
C10_SurvivesReload ==
    [][/\ (Reload /\ app = Guarded /\ lastSubmit > 0) =>
             /\ lastSubmit' = lastSubmit
             /\ isRateLimited' <=> now - lastSubmit <= LimitMs
       /\ NewSession => lastSubmit' = 0 /\ canSubmit(lastSubmit', now')]_vars

\* C10 as amended: the same, for a timestamp whose write to sessionStorage
\* succeeded and a reload on which sessionStorage can be read.
C10_SurvivesReloadWhenStored ==
    [][/\ (Reload /\ app = Guarded /\ lastSubmit > 0 /\ Persisted /\ ~storageThrows') =>
             /\ lastSubmit' = lastSubmit
             /\ isRateLimited' <=> now - lastSubmit <= LimitMs
       /\ NewSession => lastSubmit' = 0 /\ canSubmit(lastSubmit', now')]_vars

\* C10 witness: the page was loaded again inside the interval and is still
\* rate limited by the restored timestamp.
C10_Witness ==
    /\ app = Guarded
    /\ lastEvent = "reload"
    /\ lastSubmit > 0
    /\ storage = toString(lastSubmit)
    /\ now - lastSubmit <= LimitMs
    /\ isRateLimited

\* C11: an error reading or writing the persisted timestamp is swallowed, and
\* the limiter then lets the user submit: after a mount whose read threw, and
\* after a recordSubmit whose write threw, canSubmit() is true.
C11_ErrorsMeanNotLimited ==
    [][/\ ((Reload \/ NewSession) /\ app = Guarded /\ storageThrows') =>
             canSubmit(lastSubmit', now')
       /\ ((HandleSubmit \/ Response) /\ app = Guarded /\ storageThrows
              /\ lastEvent' = "submitOk") =>
             canSubmit(lastSubmit', now')]_vars

\* C11 as amended: a throwing read is swallowed and the limiter starts from 0,
\* not rate limited; a throwing write is swallowed too, the item in
\* sessionStorage stays as it was, and the timestamp in the component's
\* state is set all the same, so the mounted page is rate limited.
C11_ErrorsSwallowed ==
    [][/\ ((Reload \/ NewSession) /\ app = Guarded /\ storageThrows') =>
             /\ lastSubmit' = 0
             /\ canSubmit(lastSubmit', now')
             /\ ~isRateLimited'
       /\ ((HandleSubmit \/ Response) /\ app = Guarded /\ storageThrows
              /\ lastEvent' = "submitOk") =>
             /\ storage' = storage
             /\ lastSubmit' = now
             /\ ~canSubmit(lastSubmit', now')
             /\ isRateLimited']_vars

\* C11 witness: recordSubmit ran on a page where sessionStorage throws; an
\* older item is still stored and the state holds the new timestamp.
C11_Witness ==
    /\ app = Guarded
    /\ storageThrows
    /\ lastEvent = "submitOk"
    /\ lastSubmit = now
    /\ storage # NoItem
    /\ storage # toString(now)

\* C12: once the provider holds content fetched from the CMS, a refresh whose
\* fetch fails leaves the held content as it was.
C12_FailedRefreshKeepsSnapshot ==
    [][\A id \in 1..MaxRefreshes : \A v \in 1..MaxVersions :
          \A reply \in Replies("getSiteContent", v) :
             (RefreshDone(id, reply) /\ Failed(reply) /\ content # defaultSiteContent)
                => content' = content]_vars

\* C13: when a refresh's fetch has failed, the provider's error is set once
\* the refresh has completed.
C13_FailedRefreshSetsError ==
    [][\A id \in 1..MaxRefreshes : \A v \in 1..MaxVersions :
          \A reply \in Replies("getSiteContent", v) :
             (RefreshDone(id, reply) /\ Failed(reply)) => contentError' # Null]_vars

\* C14: every refreshContent that completes replaces the held content by
\* what its own getSiteContent resolved to, whichever call was started first,
\* so the call that completes last wins; and the held content is always one
\* whole snapshot (the defaults or one published version), never a mix.
C14_LastCompletedWins ==
    /\ [][/\ \A id \in 1..MaxRefreshes : \A v \in 1..MaxVersions :
              \A reply \in Replies("getSiteContent", v) :
                 RefreshDone(id, reply) =>
                    (content' = getSiteContent(config, reply).value /\ lastDone' = id)
          /\ (RefreshContent /\ ~cmsActive(config)) =>
                (content' = defaultSiteContent /\ lastDone' = refreshes')]_vars
    /\ [](\E v \in 0..MaxVersions : content = Served("getSiteContent", v))

\* C14 witness: of two overlapping refreshes the first one started completed
\* last, and the provider holds the older version it was answered with.
C14_Witness ==
    /\ refreshes = 2
    /\ refreshing = {}
    /\ lastDone = 1
    /\ published = 2
    /\ content = Served("getSiteContent", 1)

\* C15: with the CMS disabled (not enabled, or no base URL) every getter
\* resolves to its bundled default and makes no request, and neither does
\* refreshContent.
C15_DisabledGivesDefaults ==
    (~config.enabled \/ config.baseUrl = "") =>
        /\ refreshing = {}
        /\ lastDone > 0 => content = defaultSiteContent
        /\ lastRead.getter # "" =>
              /\ lastRead.value = DefaultOf(lastRead.getter)
              /\ ~lastRead.requested
              /\ ~lastRead.threw

\* C15 witness: getHeroContent was called with the CMS enabled but no base URL.
C15_Witness ==
    /\ config.enabled
    /\ config.baseUrl = ""
    /\ lastRead.getter = "getHeroContent"
    /\ lastRead.value = DefaultOf("getHeroContent")

\* C16: no getter ever rejects, and with the CMS enabled a getter whose fetch
\* fails (rejected, non-2xx, or unparsable) resolves to its bundled default.
C16_FailedReadGivesDefault ==
    [][\A g \in Getters : \A v \in 1..MaxVersions : \A reply \in Replies(g, v) :
          GetterCall(g, reply) =>
             /\ ~lastRead'.threw
             /\ (cmsActive(config) /\ Failed(reply)) =>
                    (lastRead'.requested /\ lastRead'.value = DefaultOf(g))]_vars

\* C16 witness: getProjectsContent asked the CMS and resolved to its default.
C16_Witness ==
    /\ cmsActive(config)
    /\ lastRead.getter = "getProjectsContent"
    /\ lastRead.requested
    /\ lastRead.value = DefaultOf("getProjectsContent")

\* C17: with the CMS disabled (not enabled, or no base URL) every call of
\* submitInquiry resolves with success = true (submit() returns true and the
\* hook shows success) and no request is made.
C17_DisabledSubmitSucceedsLocally ==
    /\ [][(HandleSubmit /\ ~(config.enabled /\ config.baseUrl # "")
             /\ submits' = submits + 1) =>
             /\ netRequests' = netRequests
             /\ pending' = pending
             /\ lastEvent' = "submitOk"
             /\ success'
             /\ error' = Null]_vars
    /\ [](~(config.enabled /\ config.baseUrl # "") => netRequests = 0 /\ pending = 0)

\* C17 witness: an inquiry the validator rejects was submitted (by the
\* component that does not validate) with the CMS enabled but no base URL,
\* and succeeded without a request.
C17_Witness ==
    /\ config.enabled
    /\ config.baseUrl = ""
    /\ lastCall.made
    /\ ~validateInquiry(lastCall.raw).isValid
    /\ lastEvent = "submitOk"
    /\ success
    /\ netRequests = 0

\* C18: when the backend answers with a body, submitInquiry's success is the
\* body's success flag and its error text is the body's message.
C18_BackendResultVerbatim ==
    [][\A resp \in Responses :
          (ResponseWith(resp) /\ resp.fetched /\ resp.json) =>
             /\ (lastEvent' = "submitOk") <=> resp.success
             /\ (~resp.success /\ resp.message # "") => error' = resp.message]_vars

\* C19: a POST that fails (fetch rejected, or a non-2xx status) ends with
\* submit() returning false and the hook showing an error, no success and no
\* loading.
C19_FailedPostSurfaces ==
    [][\A resp \in Responses :
          (ResponseWith(resp) /\ (~resp.fetched \/ ~resp.ok)) =>
             /\ lastEvent' = "submitFailed"
             /\ error' # Null
             /\ ~success'
             /\ ~loading']_vars

\* A form that passes validation.
ValidInquiry ==
    [name |-> <<"A", "l">>,
     email |-> <<"a", "@", "b", ".", "c">>,
     subject |-> <<"H", "i", "!">>,
     message |-> <<"h", "e", "l", "l", "o", " ", "t", "h", "e", "r", "e">>]

\* The errors validateInquiry reports for a form whose only questionable
\* field is field, holding value.
FieldError(field, value) == validateInquiry([ValidInquiry EXCEPT ![field] = value]).errors

\* C20: the errors shown for a rejected form are, in the order name, email,
\* subject, message, the errors each field gets when the other three fields
\* are valid: no field's failure hides or changes another field's error.
C20_RulesIndependentAndOrdered ==
    /\ (app = Guarded /\ lastEvent = "invalid") =>
          /\ validationErrors = FieldError("name", formData.name)
                                   \o FieldError("email", formData.email)
                                   \o FieldError("subject", formData.subject)
                                   \o FieldError("message", formData.message)
          /\ Len(validationErrors) =
                Cardinality({f \in Fields : FieldError(f, formData[f]) # <<>>})
    /\ (app = Guarded /\ lastCall.made) =>
          \A f \in Fields : FieldError(f, lastCall.raw[f]) = <<>>

\* C20 witness: a form whose four fields are all too long was rejected with
\* four errors, the name's first and the message's last.
C20_Witness ==
    /\ app = Guarded
    /\ lastEvent = "invalid"
    /\ Len(validationErrors) = 4
    /\ validationErrors[1] = <<"Name must be less than ", NameMaxLength, " characters">>
    /\ validationErrors[2] = <<"Email address is too long", 0, "">>
    /\ validationErrors[4] = <<"Message must be less than ", MessageMaxLength, " characters">>

\* C26: canSubmit() is true exactly when timeRemaining() is 0, so a blocked
\* submission is never told to wait 0 seconds.
C26_CanSubmitIffNothingRemains ==
    app = Guarded =>
        (canSubmit(lastSubmit, now) <=> timeRemaining(lastSubmit, now) = 0)

\* C27: the form never has two submitInquiry calls in flight: a submit event
\* raised while a POST is pending makes no second request.
C27_OneSubmissionInFlight ==
    [][(HandleSubmit /\ app = Guarded /\ pending > 0) =>
          (pending' <= 1 /\ netRequests' = netRequests /\ submits' = submits)]_vars

\* C28: the provider's loading is true in every state in which a fetch of
\* refreshContent is still in flight.
C28_LoadingWhileFetching ==
    refreshing # {} => contentLoading

\* C30: with every GET answered sooner or later, a provider mounted without
\* initialContent leaves the loading state, whether its fetch succeeds or
\* fails; a provider given initialContent is not loading and fetches nothing
\* until refreshContent is called.
C30_LoadingEnds ==
    /\ ~initialContent => <>(~contentLoading)
    /\ [](initialContent /\ refreshes = 0 =>
             ~contentLoading /\ refreshing = {} /\ content = Served("getSiteContent", 1))

\* C30 witness: a provider mounted without initialContent asked the CMS, the
\* fetch failed, and loading is off with the defaults on show.
C30_Witness ==
    /\ ~initialContent
    /\ cmsActive(config)
    /\ effectRan
    /\ lastDone = 1
    /\ refreshing = {}
    /\ ~contentLoading
    /\ content = defaultSiteContent

\* C29: a mounted content hook whose arguments do not change calls its fetch
\* function once: no fetch is started after the one of the mount.
C29_OneFetchPerMount ==
    [][hookFetches' > hookFetches => hookFetches = 0]_vars

\* ------------------------------------------------- validator and sanitizer
\* local@domain as the contract words it: no whitespace, exactly one "@"
\* after a non-empty local part, and a "." of the domain with something on
\* both sides of it.
LocalAtDomain(t) ==
    /\ \A k \in 1..Len(t) : ~IsSpace(t[k])
    /\ \E i \in 2..Len(t) :
          /\ t[i] = "@"
          /\ \A k \in 1..Len(t) : t[k] = "@" => k = i
          /\ \E j \in (i + 2)..(Len(t) - 1) : t[j] = "."

\* Every field inside the limits the contract states.
WithinConstraints(d) ==
    /\ Len(trim(d.name)) \in 2..100
    /\ LocalAtDomain(trim(d.email))
    /\ Len(trim(d.email)) <= 254
    /\ Len(trim(d.subject)) \in 3..200
    /\ Len(trim(d.message)) \in 10..5000

\* The messages shown after the submit that is just being handled.
Shown(errors) == {errors[k] : k \in DOMAIN errors}

\* C21: a form whose trimmed name has 2 to 100 characters, whose email
\* matches local@domain and has at most 254 characters trimmed, whose subject
\* has 3 to 200 and whose message has 10 to 5000 is valid with no error
\* message, and goes through; a result is valid exactly when it has no error.
C21_WithinConstraintsIsValid ==
    /\ [][(HandleSubmit /\ app = Guarded /\ canSubmit(lastSubmit, now)
              /\ WithinConstraints(formData)) =>
             (/\ lastEvent' = "submitOk"
              /\ validationErrors' = <<>>
              /\ lastCall'.made
              /\ lastCall'.raw = formData)]_vars
    /\ [](validateInquiry(formData).isValid <=> validateInquiry(formData).errors = <<>>)

\* C21 witness: a form with every field at its upper limit went through.
C21_Witness ==
    /\ app = Guarded
    /\ lastEvent = "submitOk"
    /\ validationErrors = <<>>
    /\ lastCall.made
    /\ Len(lastCall.raw.name) = 100
    /\ Len(lastCall.raw.email) = 254
    /\ Len(lastCall.raw.subject) = 200
    /\ Len(lastCall.raw.message) = 5000

\* C22: a name of fewer than 2 characters once trimmed is refused with
\* "Name must be at least 2 characters", whatever the other fields hold; a
\* name of 2 to 100 characters brings no message about the name.
C22_ShortNameRefused ==
    [][(HandleSubmit /\ app = Guarded /\ canSubmit(lastSubmit, now)) =>
          (/\ Len(trim(formData.name)) < 2 =>
                 (/\ lastEvent' = "invalid"
                  /\ <<"Name must be at least ", 2, " characters">> \in Shown(validationErrors'))
           /\ Len(trim(formData.name)) \in 2..100 =>
                 (\A e \in Shown(validationErrors') :
                     e[1] \notin {"Name must be at least ", "Name must be less than "}))]_vars

\* C22 witness: a name of blanks only, the other fields in order, was refused
\* with the one message about the name.
C22_Witness ==
    /\ app = Guarded
    /\ lastEvent = "invalid"
    /\ formData.name = <<" ", " ">>
    /\ validationErrors = << <<"Name must be at least ", 2, " characters">> >>

\* C23: an email that is not local@domain is no valid email and is refused
\* with "Please enter a valid email address"; one that is local@domain but
\* longer than 254 characters trimmed is refused as well.
C23_MalformedEmailRefused ==
    [][(HandleSubmit /\ app = Guarded /\ canSubmit(lastSubmit, now)) =>
          (/\ ~LocalAtDomain(trim(formData.email)) =>
                 (/\ ~isValidEmail(formData.email)
                  /\ lastEvent' = "invalid"
                  /\ <<"Please enter a valid email address", 0, "">> \in Shown(validationErrors'))
           /\ (LocalAtDomain(trim(formData.email)) /\ Len(trim(formData.email)) > 254) =>
                 (/\ lastEvent' = "invalid"
                  /\ <<"Email address is too long", 0, "">> \in Shown(validationErrors')))]_vars

\* C23 witness: "not-an-email", the other fields in order, was refused with
\* the one message about the email.
C23_Witness ==
    /\ app = Guarded
    /\ lastEvent = "invalid"
    /\ formData.email = <<"n", "o", "t", "-", "a", "n", "-", "e", "m", "a", "i", "l">>
    /\ validationErrors = << <<"Please enter a valid email address", 0, "">> >>

C25_TransmittedStillValid ==
    (app = Guarded /\ lastCall.made) => validateInquiry(lastCall.data).isValid
====
